---- MODULE Spec2Model ----
(***************************************************************************)
(* Model of the parameter classes of src/gui/panels/LfoPanel.h: Param,     *)
(* ParamDb and ParamStepped<_enum>.                                        *)
(*                                                                         *)
(* Floats are fixed-point numbers counted in hundredths: the float 1.4f is *)
(* 140, .5f is 50, MIN_DB = -96.f is -9600.  Every input is drawn from a   *)
(* grid on which the arithmetic of the code (f + .5f, pow(10, db/20),      *)
(* 20*log10(x)) is exact.                                                  *)
(*                                                                         *)
(* Spec     : one caller; every action is one whole method call.           *)
(* SpecRT   : an audio thread A calling set/get and a UI thread B calling  *)
(*            setUI/getUI on one base Param; every step is one access of   *)
(*            an atomic.                                                   *)
(* SpecUI   : a host thread H calling setHost and two UI threads U1, U2    *)
(*            calling isUIDirty/getUI on one base Param.                   *)
(* SpecStep : a thread S calling setStep and a thread W calling setUI on   *)
(*            one ParamStepped; every step is one store.                   *)
(* SpecMidi : the static midiToPanValue called on every MIDI value.        *)
(***************************************************************************)
EXTENDS Integers, Sequences, FiniteSets, TLC

VARIABLES
    kind,        \* dynamic type of the object: "Param", "ParamDb", "ParamStepped"
    min_, max_, default_, numSteps_,   \* Param's bounds (lines 171-177)
    val_,        \* std::atomic<float> val_
    step_,       \* std::atomic<_enum> step_ (ParamStepped only)
    uiDirty,     \* std::atomic<bool> uiDirty
    listener,    \* ListenerList<Listener> listener: entries held, per listener
    last,        \* the call that just returned: its name, arguments, results
    calls,       \* paramUIChanged invocations made by that call, per listener
    pending,     \* setHost calls completed since the last isUIDirty (saturating)
    polls,       \* isUIDirty calls since the last setHost (saturating)
    consumed,    \* value of pending taken by the first poll after the last setHost
    hostArg,     \* argument of the last setHost (0 once another write followed)
    clean,       \* no set / setUI / setStep since the last setHost
    registered,  \* the listeners added and not removed since
    pc,          \* SpecRT: where each thread is in its call
    arg,         \* SpecRT: the arguments of each thread's call
    begun,       \* SpecRT: the arguments of the set and setUI calls begun so far
    hist         \* SpecUI: which setHost wrote val_, raised uiDirty, was polled

vars == <<kind, min_, max_, default_, numSteps_, val_, step_, uiDirty, listener,
          last, calls, pending, polls, consumed, hostArg, clean, registered,
          pc, arg, begun, hist>>

objVars == <<kind, min_, max_, default_, numSteps_>>

rtVars == <<pc, arg, begun, hist>>

Threads == {"A", "B"}

----------------------------------------------------------------------------
(* Bounds of the model *)

\* cardinality of the enumeration: _enum::nSteps
nSteps == 4
\* number of distinct Listener objects
NumListeners == 2
\* number of setHost calls the host thread makes in SpecUI
MaxHostCalls == 3
\* the poll counter saturates here
MaxPolls == 3
\* the counter of unpolled setHost calls saturates here
MaxPending == 2

Listeners == 1..NumListeners

----------------------------------------------------------------------------
(* Static conversion utilities *)

MIN_DB == -9600

RECURSIVE Log10(_)
\* std::log10 on the powers of ten (floor elsewhere); x >= 1
Log10(x) == IF x < 10 THEN 0 ELSE 1 + Log10(x \div 10)

RECURSIVE Pow10(_)
\* std::pow(10.f, e) for a whole exponent e; a power below one hundredth
\* (e < 0) is kept as the least positive value, so that it stays positive
Pow10(e) == IF e <= 0 THEN 1 ELSE 10 * Pow10(e - 1)

\* linear > 0.f ? 20.f * std::log10(linear) : MIN_DB
\* (linear in hundredths: log10(linear/100) = Log10(linear) - 2)
toDb(linear) == IF linear > 0 THEN 2000 * (Log10(linear) - 2) ELSE MIN_DB

\* a floor that leaves MIN_DB itself to std::pow
fromDb_strict(db) == IF db < MIN_DB THEN 0 ELSE Pow10((db \div 2000) + 2)

\* db <= MIN_DB ? 0.f : std::pow(10.f, db / 20.f)
\* (in hundredths: 100 * 10^(db/2000) = 10^(db/2000 + 2))
fromDb(db) == IF db <= MIN_DB THEN 0 ELSE Pow10((db \div 2000) + 2)

\* the linear map alone, without the branches for 64 and for 0 and 1
midiToPanValue_linear(midiValue) == 2 * midiValue - 127

\* static float midiToPanValue(int midiValue), in 127ths, in which the
\* quotient 2.0f*(float)midiValue / 127.0f is exact
midiToPanValue(midiValue) ==
    IF midiValue = 64 THEN 0
    ELSE IF midiValue <= 1 THEN -127
    ELSE 2 * midiValue - 127

\* std::trunc of a float in hundredths, as an int: rounds toward zero
trunc(x) == IF x >= 0 THEN x \div 100 ELSE -((-x) \div 100)

\* static_cast<float>(v) of an enum member or an int
toFloat(i) == i * 100

----------------------------------------------------------------------------
(* Construction *)

\* the label table handed to ParamStepped's constructor, one label per step
LabelNames == <<"A", "B", "C", "D", "E", "F">>
labels_ == [u \in 0..(nSteps - 1) |-> LabelNames[u + 1]]

\* Param(name, tag, unit, minval, maxval, defaultval, numSteps): the objects built
Configs ==
    {[kind |-> "Param", min |-> 0, max |-> 200, default |-> 100, numSteps |-> 0]}
    \cup {[kind |-> "ParamDb", min |-> 0, max |-> 100, default |-> 100, numSteps |-> 0]}
    \cup {[kind |-> "ParamStepped", min |-> 0, max |-> toFloat(nSteps) - 100,
           default |-> toFloat(d), numSteps |-> nSteps] : d \in {1}}

\* float arguments handed to set / setUI / setHost, per kind of object
Floats(k) ==
    CASE k = "Param" -> {-50, 0, 140, 200, 250}
      [] k = "ParamDb" -> {-9700, -9600, -4000, -2000, 0, 2000}
      [] k = "ParamStepped" ->
            {-150, -60, 140, 150, toFloat(nSteps) - 100, toFloat(nSteps) - 60,
             toFloat(nSteps) - 50}

\* raw values handed to set(): for a ParamDb these are linear amplitudes
Raws(k) == IF k = "ParamDb" THEN {-100, 0, 1, 10, 100, 1000} ELSE Floats(k)

NoCalls == [l \in Listeners |-> 0]

NoArg == [f |-> 0, notifyHost |-> FALSE]

\* setHost calls are numbered from 1 in the order they begin; 0 is the constructor
NoHist == [hostCalls |-> 0,   \* setHost calls begun
           valVer |-> 0,      \* the call whose store val_ holds
           flagVer |-> 0,     \* the call whose exchange last raised uiDirty
           ackVer |-> 0,      \* flagVer at the last isUIDirty() that returned true
           seenVer |-> 0,     \* valVer at the last getUI()
           trues |-> 0,       \* isUIDirty() calls that returned true since the raise
           polled |-> {},     \* the threads whose isUIDirty() returned since the raise
           unacked |-> FALSE] \* a setHost returned and no isUIDirty() returned true since

NoCall == [op |-> "ctor", f |-> 0, notifyHost |-> FALSE,
           retF |-> 0, retB |-> FALSE, retS |-> "", jassertFailed |-> FALSE]

\* the constructors: val_(defaultval), step_(defaultval); uiDirty has no initializer
Init ==
    /\ \E c \in Configs :
         /\ kind = c.kind
         /\ min_ = c.min
         /\ max_ = c.max
         /\ default_ = c.default
         /\ numSteps_ = c.numSteps
         /\ val_ = c.default
         /\ step_ = IF c.kind = "ParamStepped" THEN trunc(c.default) ELSE 0
    /\ uiDirty \in BOOLEAN
    /\ listener = [l \in Listeners |-> 0]
    /\ last = NoCall
    /\ calls = NoCalls
    /\ pending = 0
    /\ polls = 0
    /\ consumed = 0
    /\ hostArg = 0
    /\ clean = TRUE
    /\ registered = {}
    /\ pc = [t \in Threads |-> "idle"]
    /\ arg = [t \in Threads |-> NoArg]
    /\ begun = {}
    /\ hist = NoHist

----------------------------------------------------------------------------
(* Helpers *)

Min(a, b) == IF a < b THEN a ELSE b

Returned(op) == [NoCall EXCEPT !.op = op]

\* ListenerList::add (adds the listener if it is not already there)
ListenerList_add(ls, l) == IF ls[l] > 0 THEN ls ELSE [ls EXCEPT ![l] = 1]

\* ListenerList::remove
ListenerList_remove(ls, l) == [ls EXCEPT ![l] = 0]

\* ListenerList::call: one paramUIChanged per entry of the list
ListenerList_call(ls) == [l \in Listeners |-> ls[l]]

\* a notification that ignores the notifyHost argument
notify_always(notifyHost) == ListenerList_call(listener)

\* if (notifyHost) listener.call(&Listener::paramUIChanged);
notify(notifyHost) == IF notifyHost THEN ListenerList_call(listener) ELSE NoCalls

----------------------------------------------------------------------------
(* setUI, as each class defines it *)

\* a range check that excludes the bounds
Param_setUI_exclusive(f) == IF f > min_ /\ f < max_ THEN f ELSE default_

\* a validation that clamps to the nearer bound instead of resetting
Param_setUI_clamp(f) == IF f < min_ THEN min_ ELSE IF f > max_ THEN max_ ELSE f

\* Param::setUI: if (f >= min_ && f <= max_) set(f); else set(default_);
Param_setUI(f) == IF f >= min_ /\ f <= max_ THEN f ELSE default_

\* a range check applied to the decibel argument
ParamDb_setUI_rangeOnDb(f) == IF f >= min_ /\ f <= max_ THEN fromDb(f) ELSE default_

\* ParamDb::setUI: if (fromDb(f) >= min_ && fromDb(f) <= max_) set(fromDb(f));
\*                 else set(default_);
ParamDb_setUI(f) ==
    IF fromDb(f) >= min_ /\ fromDb(f) <= max_ THEN fromDb(f) ELSE default_

\* ParamStepped::setUI: set(f);
ParamStepped_setUI(f) == f

\* a rounding that drops the + .5f
ival_truncate(f) == trunc(f)

\* ParamStepped::setUI: int ival = static_cast<int>(std::trunc(f + .5f));
ival(f) == trunc(f + 50)

\* jassert(ival >= 0 && ival < static_cast<int>(_enum::nSteps)): logs, then goes on
jassert_ival(f) == ival(f) >= 0 /\ ival(f) < nSteps

\* the raw value the virtual setUI(f, .) stores
setUI_val(f) ==
    CASE kind = "Param" -> Param_setUI(f)
      [] kind = "ParamDb" -> ParamDb_setUI(f)
      [] kind = "ParamStepped" -> ParamStepped_setUI(f)

\* step_ after the virtual setUI(f, .): step_.store(static_cast<_enum>(ival))
setUI_step(f) == IF kind = "ParamStepped" THEN ival(f) ELSE step_

\* a set that validates like setUI
set_val_validated(f) == setUI_val(f)

\* Param::set: val_.store(f)
set_val(f) == f

\* a setStep that leaves the raw value alone
setStep_val_missing(v) == val_

\* ParamStepped::setStep: set(static_cast<float>(v))
setStep_val(v) == toFloat(v)

\* the virtual getUI()
getUI_val == IF kind = "ParamDb" THEN toDb(val_) ELSE val_

\* setHost: setUI(f, false), the raw value it stores
setHost_skipWhenDirty(f) == IF uiDirty THEN val_ ELSE setUI_val(f)
setHost_unvalidated(f) == f
setHost_val(f) == setUI_val(f)

\* a setHost that raises the flag before it stores
setHost_order_flagFirst == <<"exchange", "setUI">>

\* setHost's statements, in order: setUI(f, false); uiDirty.exchange(true);
setHost_order == <<"setUI", "exchange">>

\* a setHost that lowers the flag
setHost_exchange_clear == FALSE

\* uiDirty.exchange(true) in setHost: the new value of the flag
setHost_exchange == TRUE

\* a plain load of the flag, which does not clear it
isUIDirty_load == <<uiDirty, uiDirty>>

\* a test-and-clear made of a load and a separate store
isUIDirty_steps_loadStore == <<"load", "store">>

\* isUIDirty's accesses of uiDirty, in order: one exchange
isUIDirty_steps == <<"exchange">>

\* uiDirty.exchange(false) in isUIDirty: <<returned value, new value of the flag>>
isUIDirty_exchange == <<uiDirty, FALSE>>

----------------------------------------------------------------------------
(* The methods, one action per call *)

ghost == <<pending, polls, consumed, registered>>

\* void set(float f) { val_.store(f); }
set(f) ==
    /\ val_' = set_val(f)
    /\ last' = [Returned("set") EXCEPT !.f = f]
    /\ calls' = NoCalls
    /\ clean' = FALSE
    /\ hostArg' = 0
    /\ UNCHANGED <<objVars, rtVars, step_, uiDirty, listener, ghost>>

\* float get() const { return val_.load(); }
get ==
    /\ last' = [Returned("get") EXCEPT !.retF = val_]
    /\ calls' = NoCalls
    /\ UNCHANGED <<objVars, rtVars, val_, step_, uiDirty, listener, ghost, hostArg, clean>>

\* virtual void setUI(float f, bool notifyHost = true)
setUI(f, notifyHost) ==
    /\ val_' = setUI_val(f)
    /\ step_' = setUI_step(f)
    /\ calls' = notify(notifyHost)
    /\ last' = [Returned("setUI") EXCEPT !.f = f, !.notifyHost = notifyHost,
                  !.jassertFailed = (kind = "ParamStepped" /\ ~jassert_ival(f))]
    /\ clean' = FALSE
    /\ hostArg' = 0
    /\ UNCHANGED <<objVars, rtVars, uiDirty, listener, ghost>>

\* virtual float getUI() const
getUI ==
    /\ last' = [Returned("getUI") EXCEPT !.retF = getUI_val]
    /\ calls' = NoCalls
    /\ UNCHANGED <<objVars, rtVars, val_, step_, uiDirty, listener, ghost, hostArg, clean>>

\* void setHost(float f) { setUI(f, false); uiDirty.exchange(true); }
setHost(f) ==
    /\ val_' = setHost_val(f)
    /\ step_' = setUI_step(f)
    /\ calls' = notify(FALSE)
    /\ uiDirty' = setHost_exchange
    /\ last' = [Returned("setHost") EXCEPT !.f = f,
                  !.jassertFailed = (kind = "ParamStepped" /\ ~jassert_ival(f))]
    /\ pending' = Min(pending + 1, MaxPending)
    /\ polls' = 0
    /\ consumed' = 0
    /\ hostArg' = f
    /\ clean' = TRUE
    /\ UNCHANGED <<objVars, rtVars, listener, registered>>

\* bool isUIDirty() { return uiDirty.exchange(false); }
isUIDirty ==
    /\ uiDirty' = isUIDirty_exchange[2]
    /\ last' = [Returned("isUIDirty") EXCEPT !.retB = isUIDirty_exchange[1]]
    /\ calls' = NoCalls
    /\ polls' = Min(polls + 1, MaxPolls)
    /\ consumed' = IF polls = 0 THEN pending ELSE consumed
    /\ pending' = 0
    /\ UNCHANGED <<objVars, rtVars, val_, step_, listener, hostArg, clean, registered>>

\* void addListener(Listener *newListener) { listener.add(newListener); }
addListener(l) ==
    /\ listener' = ListenerList_add(listener, l)
    /\ registered' = registered \cup {l}
    /\ last' = Returned("addListener")
    /\ calls' = NoCalls
    /\ UNCHANGED <<objVars, rtVars, val_, step_, uiDirty, pending, polls, consumed,
                   hostArg, clean>>

\* void removeListener(Listener *aListener) { listener.remove(aListener); }
removeListener(l) ==
    /\ listener' = ListenerList_remove(listener, l)
    /\ registered' = registered \ {l}
    /\ last' = Returned("removeListener")
    /\ calls' = NoCalls
    /\ UNCHANGED <<objVars, rtVars, val_, step_, uiDirty, pending, polls, consumed,
                   hostArg, clean>>

\* _enum getStep() const { return step_.load(); }
getStep ==
    /\ kind = "ParamStepped"
    /\ last' = [Returned("getStep") EXCEPT !.retF = step_]
    /\ calls' = NoCalls
    /\ UNCHANGED <<objVars, rtVars, val_, step_, uiDirty, listener, ghost, hostArg, clean>>

\* void setStep(_enum v) { step_.store(v); set(static_cast<float>(v)); }
\* (v ranges over the members below the nSteps sentinel)
setStep(v) ==
    /\ kind = "ParamStepped"
    /\ step_' = v
    /\ val_' = setStep_val(v)
    /\ last' = [Returned("setStep") EXCEPT !.f = v]
    /\ calls' = NoCalls
    /\ clean' = FALSE
    /\ hostArg' = 0
    /\ UNCHANGED <<objVars, rtVars, uiDirty, listener, ghost>>

\* Param::getUIString(): getUIString(get()), String::formatted("%f", v)
Param_getUIString == ToString(val_)

\* ParamStepped::getUIString(): labels_[static_cast<size_t>(getStep())];
\* an index outside the std::array is an out-of-bounds read: any string
ParamStepped_getUIString ==
    IF step_ \in DOMAIN labels_
    THEN {labels_[step_]}
    ELSE {labels_[u] : u \in DOMAIN labels_} \cup {"<garbage>"}

\* virtual String getUIString() const
getUIString ==
    /\ \E s \in (IF kind = "ParamStepped" THEN ParamStepped_getUIString
                 ELSE {Param_getUIString}) :
          last' = [Returned("getUIString") EXCEPT !.retS = s]
    /\ calls' = NoCalls
    /\ UNCHANGED <<objVars, rtVars, val_, step_, uiDirty, listener, ghost, hostArg, clean>>

\* candidate values handed to getUIString(float v); negative candidates, whose
\* conversion to size_t is undefined, are not drawn
Candidates(k) == {f \in Floats(k) : f >= 0} \cup {toFloat(nSteps)}

\* Param::getUIString(float v): String::formatted("%f", v)
Param_getUIString_v(v) == [s |-> ToString(v), jassertFailed |-> FALSE]

\* ParamStepped::getUIString(float v), for v + .5f >= 0:
\* size_t u = trunc(v + .5f); u < labels_.size() ? labels_[u]
\*                                               : jassert(false), "val%u"
ParamStepped_getUIString_v(v) ==
    LET u == trunc(v + 50)
    IN  IF u < nSteps
        THEN [s |-> labels_[u], jassertFailed |-> FALSE]
        ELSE [s |-> "val" \o ToString(u), jassertFailed |-> TRUE]

\* virtual String getUIString(float v) const
getUIString_v(v) ==
    /\ LET r == IF kind = "ParamStepped" THEN ParamStepped_getUIString_v(v)
                ELSE Param_getUIString_v(v)
       IN  last' = [Returned("getUIString_v") EXCEPT !.f = v, !.retS = r.s,
                      !.jassertFailed = r.jassertFailed]
    /\ calls' = NoCalls
    /\ UNCHANGED <<objVars, rtVars, val_, step_, uiDirty, listener, ghost, hostArg, clean>>

\* static float toDb(float linear), called on its own
call_toDb(linear) ==
    /\ last' = [Returned("toDb") EXCEPT !.f = linear, !.retF = toDb(linear)]
    /\ calls' = NoCalls
    /\ UNCHANGED <<objVars, rtVars, val_, step_, uiDirty, listener, ghost, hostArg, clean>>

\* static float fromDb(float db), called on its own
call_fromDb(db) ==
    /\ last' = [Returned("fromDb") EXCEPT !.f = db, !.retF = fromDb(db)]
    /\ calls' = NoCalls
    /\ UNCHANGED <<objVars, rtVars, val_, step_, uiDirty, listener, ghost, hostArg, clean>>

Next ==
    \/ \E f \in Raws(kind) : set(f)
    \/ get
    \/ \E f \in Floats(kind), n \in BOOLEAN : setUI(f, n)
    \/ getUI
    \/ \E f \in Floats(kind) : setHost(f)
    \/ isUIDirty
    \/ \E l \in Listeners : addListener(l)
    \/ \E l \in Listeners : removeListener(l)
    \/ getStep
    \/ \E v \in 0..(nSteps - 1) : setStep(v)
    \/ getUIString
    \/ \E v \in Candidates(kind) : getUIString_v(v)
    \/ \E x \in {-100, 0, 10} : call_toDb(x)
    \/ \E db \in {-9700, -9600, -2000} : call_fromDb(db)

Spec == Init /\ [][Next]_vars

----------------------------------------------------------------------------
(* SpecRT: thread A in set / get, thread B in setUI / getUI, on a base Param *)

seqGhost == <<pending, polls, consumed, hostArg, clean, registered, hist>>

\* a base Param with one listener registered, both threads outside any call
InitRT ==
    /\ kind = "Param"
    /\ \E c \in Configs :
         /\ c.kind = "Param"
         /\ min_ = c.min
         /\ max_ = c.max
         /\ default_ = c.default
         /\ numSteps_ = c.numSteps
         /\ val_ = c.default
    /\ step_ = 0
    /\ uiDirty \in BOOLEAN
    /\ listener = [l \in Listeners |-> IF l = 1 THEN 1 ELSE 0]
    /\ registered = {1}
    /\ last = NoCall
    /\ calls = NoCalls
    /\ pending = 0
    /\ polls = 0
    /\ consumed = 0
    /\ hostArg = 0
    /\ clean = TRUE
    /\ pc = [t \in Threads |-> "idle"]
    /\ arg = [t \in Threads |-> NoArg]
    /\ begun = {}
    /\ hist = NoHist

\* thread A enters set(f)
A_set_call(f) ==
    /\ pc["A"] = "idle"
    /\ pc' = [pc EXCEPT !["A"] = "set"]
    /\ arg' = [arg EXCEPT !["A"] = [NoArg EXCEPT !.f = f]]
    /\ begun' = begun \cup {f}
    /\ UNCHANGED <<objVars, val_, step_, uiDirty, listener, last, calls, seqGhost>>

\* thread A: val_.store(f), and set returns
A_set_store ==
    /\ pc["A"] = "set"
    /\ val_' = set_val(arg["A"].f)
    /\ pc' = [pc EXCEPT !["A"] = "idle"]
    /\ last' = [Returned("set") EXCEPT !.f = arg["A"].f]
    /\ UNCHANGED <<objVars, step_, uiDirty, listener, calls, seqGhost, arg, begun>>

\* thread A: get(), one val_.load()
A_get ==
    /\ pc["A"] = "idle"
    /\ last' = [Returned("get") EXCEPT !.retF = val_]
    /\ UNCHANGED <<objVars, val_, step_, uiDirty, listener, calls, seqGhost, rtVars>>

\* thread B enters setUI(f, notifyHost)
B_setUI_call(f, notifyHost) ==
    /\ pc["B"] = "idle"
    /\ pc' = [pc EXCEPT !["B"] = "setUI"]
    /\ arg' = [arg EXCEPT !["B"] = [f |-> f, notifyHost |-> notifyHost]]
    /\ begun' = begun \cup {f}
    /\ UNCHANGED <<objVars, val_, step_, uiDirty, listener, last, calls, seqGhost>>

\* thread B: the range check on min_ and max_, then val_.store
B_setUI_store ==
    /\ pc["B"] = "setUI"
    /\ val_' = setUI_val(arg["B"].f)
    /\ pc' = [pc EXCEPT !["B"] = "setUI_notify"]
    /\ UNCHANGED <<objVars, step_, uiDirty, listener, last, calls, seqGhost, arg, begun>>

\* thread B: if (notifyHost) listener.call(...), and setUI returns
B_setUI_notify ==
    /\ pc["B"] = "setUI_notify"
    /\ calls' = notify(arg["B"].notifyHost)
    /\ pc' = [pc EXCEPT !["B"] = "idle"]
    /\ last' = [Returned("setUI") EXCEPT !.f = arg["B"].f,
                  !.notifyHost = arg["B"].notifyHost]
    /\ UNCHANGED <<objVars, val_, step_, uiDirty, listener, seqGhost, arg, begun>>

\* thread B: getUI(), one val_.load()
B_getUI ==
    /\ pc["B"] = "idle"
    /\ last' = [Returned("getUI") EXCEPT !.retF = getUI_val]
    /\ UNCHANGED <<objVars, val_, step_, uiDirty, listener, calls, seqGhost, rtVars>>

NextRT ==
    \/ \E f \in Raws("Param") : A_set_call(f)
    \/ A_set_store
    \/ A_get
    \/ \E f \in Floats("Param"), n \in BOOLEAN : B_setUI_call(f, n)
    \/ B_setUI_store
    \/ B_setUI_notify
    \/ B_getUI

SpecRT == InitRT /\ [][NextRT]_vars

----------------------------------------------------------------------------
(* SpecUI: thread H in setHost, threads U1 and U2 in isUIDirty / getUI *)

Pollers == {"U1", "U2"}

\* a base Param, all threads outside any call
InitUI ==
    /\ kind = "Param"
    /\ \E c \in Configs :
         /\ c.kind = "Param"
         /\ min_ = c.min
         /\ max_ = c.max
         /\ default_ = c.default
         /\ numSteps_ = c.numSteps
         /\ val_ = c.default
    /\ step_ = 0
    /\ uiDirty \in BOOLEAN
    /\ listener = [l \in Listeners |-> 0]
    /\ registered = {}
    /\ last = NoCall
    /\ calls = NoCalls
    /\ pending = 0
    /\ polls = 0
    /\ consumed = 0
    /\ hostArg = 0
    /\ clean = TRUE
    /\ pc = [t \in {"H"} \cup Pollers |-> 0]
    /\ arg = [t \in {"H"} \cup Pollers |-> NoArg]
    /\ begun = {}
    /\ hist = NoHist

uiFixed == <<objVars, step_, listener, calls, pending, consumed, hostArg, clean,
             registered, begun>>

\* thread H enters setHost(f)
H_setHost_call(f) ==
    /\ pc["H"] = 0
    /\ hist.hostCalls < MaxHostCalls
    /\ pc' = [pc EXCEPT !["H"] = 1]
    /\ arg' = [arg EXCEPT !["H"] = [NoArg EXCEPT !.f = f]]
    /\ hist' = [hist EXCEPT !.hostCalls = @ + 1]
    /\ UNCHANGED <<uiFixed, val_, uiDirty, last, polls>>

\* thread H: the next statement of setHost; after the last one setHost returns
H_setHost_step ==
    /\ pc["H"] >= 1
    /\ LET st == setHost_order[pc["H"]]
           done == pc["H"] = Len(setHost_order)
       IN  /\ IF st = "setUI"
              THEN /\ val_' = setHost_val(arg["H"].f)
                   /\ hist' = [hist EXCEPT !.valVer = hist.hostCalls,
                                           !.unacked = @ \/ done]
                   /\ UNCHANGED <<uiDirty, polls>>
              ELSE /\ uiDirty' = setHost_exchange
                   /\ hist' = [hist EXCEPT !.flagVer = hist.hostCalls,
                                           !.trues = 0, !.polled = {},
                                           !.unacked = @ \/ done]
                   /\ polls' = 0
                   /\ UNCHANGED val_
           /\ pc' = [pc EXCEPT !["H"] = IF done THEN 0 ELSE @ + 1]
           /\ last' = IF done THEN [Returned("setHost") EXCEPT !.f = arg["H"].f]
                      ELSE last
    /\ UNCHANGED <<uiFixed, arg>>

\* thread t: the next access of isUIDirty(); after the last one it returns
U_isUIDirty_step(t) ==
    LET k == pc[t] + 1
        st == isUIDirty_steps[k]
        done == k = Len(isUIDirty_steps)
        ret == IF st = "store" THEN arg[t].notifyHost
               ELSE IF st = "load" THEN uiDirty ELSE isUIDirty_exchange[1]
    IN  /\ uiDirty' = IF st = "load" THEN uiDirty
                      ELSE IF st = "store" THEN FALSE ELSE isUIDirty_exchange[2]
        /\ arg' = [arg EXCEPT ![t] = [NoArg EXCEPT !.notifyHost = ret /\ ~done]]
        /\ pc' = [pc EXCEPT ![t] = IF done THEN 0 ELSE k]
        /\ IF done
           THEN /\ last' = [Returned("isUIDirty") EXCEPT !.retB = ret]
                /\ polls' = Min(polls + 1, MaxPolls)
                /\ hist' = [hist EXCEPT
                              !.trues = IF ret THEN Min(@ + 1, 2) ELSE @,
                              !.polled = @ \cup {t},
                              !.ackVer = IF ret THEN hist.flagVer ELSE @,
                              !.unacked = @ /\ ~ret]
           ELSE UNCHANGED <<last, polls, hist>>
        /\ UNCHANGED <<uiFixed, val_>>

\* thread t: getUI(), one val_.load()
U_getUI(t) ==
    /\ pc[t] = 0
    /\ last' = [Returned("getUI") EXCEPT !.retF = getUI_val]
    /\ hist' = [hist EXCEPT !.seenVer = hist.valVer]
    /\ UNCHANGED <<uiFixed, val_, uiDirty, polls, pc, arg>>

NextUI ==
    \/ \E f \in {140, 250} : H_setHost_call(f)
    \/ H_setHost_step
    \/ \E t \in Pollers : U_isUIDirty_step(t)
    \/ \E t \in Pollers : U_getUI(t)

SpecUI == InitUI /\ [][NextUI]_vars

----------------------------------------------------------------------------
(* SpecStep: thread S in setStep, thread W in setUI, on one ParamStepped *)

\* setStep's statements, in order: step_.store(v); set(static_cast<float>(v));
setStep_order == <<"step_", "val_">>

\* ParamStepped::setUI's statements, in order: set(f); step_.store(...);
\* if (notifyHost) listener.call(...)
ParamStepped_setUI_order == <<"val_", "step_", "notify">>

\* a ParamStepped, both threads outside any call
InitStep ==
    /\ kind = "ParamStepped"
    /\ \E c \in Configs :
         /\ c.kind = "ParamStepped"
         /\ min_ = c.min
         /\ max_ = c.max
         /\ default_ = c.default
         /\ numSteps_ = c.numSteps
         /\ val_ = c.default
         /\ step_ = trunc(c.default)
    /\ uiDirty \in BOOLEAN
    /\ listener = [l \in Listeners |-> IF l = 1 THEN 1 ELSE 0]
    /\ registered = {1}
    /\ last = NoCall
    /\ calls = NoCalls
    /\ pending = 0
    /\ polls = 0
    /\ consumed = 0
    /\ hostArg = 0
    /\ clean = TRUE
    /\ pc = [t \in {"S", "W"} |-> 0]
    /\ arg = [t \in {"S", "W"} |-> NoArg]
    /\ begun = {}
    /\ hist = NoHist

stepFixed == <<objVars, uiDirty, listener, seqGhost, begun>>

\* thread S enters setStep(v)
S_setStep_call(v) ==
    /\ pc["S"] = 0
    /\ pc' = [pc EXCEPT !["S"] = 1]
    /\ arg' = [arg EXCEPT !["S"] = [NoArg EXCEPT !.f = v]]
    /\ UNCHANGED <<stepFixed, val_, step_, last, calls>>

\* thread S: the next store of setStep; after the last one setStep returns
S_setStep_step ==
    /\ pc["S"] >= 1
    /\ LET st == setStep_order[pc["S"]]
           done == pc["S"] = Len(setStep_order)
       IN  /\ IF st = "step_"
              THEN step_' = arg["S"].f /\ UNCHANGED val_
              ELSE val_' = setStep_val(arg["S"].f) /\ UNCHANGED step_
           /\ pc' = [pc EXCEPT !["S"] = IF done THEN 0 ELSE @ + 1]
           /\ last' = IF done THEN [Returned("setStep") EXCEPT !.f = arg["S"].f]
                      ELSE last
    /\ UNCHANGED <<stepFixed, arg, calls>>

\* thread W enters setUI(f, notifyHost)
W_setUI_call(f, notifyHost) ==
    /\ pc["W"] = 0
    /\ pc' = [pc EXCEPT !["W"] = 1]
    /\ arg' = [arg EXCEPT !["W"] = [f |-> f, notifyHost |-> notifyHost]]
    /\ UNCHANGED <<stepFixed, val_, step_, last, calls>>

\* thread W: the next statement of ParamStepped::setUI; after the last, it returns
W_setUI_step ==
    /\ pc["W"] >= 1
    /\ LET st == ParamStepped_setUI_order[pc["W"]]
           done == pc["W"] = Len(ParamStepped_setUI_order)
       IN  /\ CASE st = "val_" ->
                     val_' = setUI_val(arg["W"].f) /\ UNCHANGED <<step_, calls>>
                [] st = "step_" ->
                     step_' = setUI_step(arg["W"].f) /\ UNCHANGED <<val_, calls>>
                [] st = "notify" ->
                     calls' = notify(arg["W"].notifyHost) /\ UNCHANGED <<val_, step_>>
           /\ pc' = [pc EXCEPT !["W"] = IF done THEN 0 ELSE @ + 1]
           /\ last' = IF done
                      THEN [Returned("setUI") EXCEPT !.f = arg["W"].f,
                              !.notifyHost = arg["W"].notifyHost]
                      ELSE last
    /\ UNCHANGED <<stepFixed, arg>>

NextStep ==
    \/ \E v \in 0..(nSteps - 1) : S_setStep_call(v)
    \/ S_setStep_step
    \/ \E f \in {x \in Floats("ParamStepped") : x >= 0 /\ x <= toFloat(nSteps - 1)},
          n \in BOOLEAN : W_setUI_call(f, n)
    \/ W_setUI_step

SpecStep == InitStep /\ [][NextStep]_vars

----------------------------------------------------------------------------
(* SpecMidi: midiToPanValue, a static function, called on the MIDI values *)

\* static float midiToPanValue(int midiValue), called on its own
call_midiToPanValue(midiValue) ==
    /\ last' = [Returned("midiToPanValue") EXCEPT !.f = midiValue,
                  !.retF = midiToPanValue(midiValue)]
    /\ UNCHANGED <<objVars, rtVars, val_, step_, uiDirty, listener, calls, seqGhost>>

NextMidi == \E m \in 0..127 : call_midiToPanValue(m)

SpecMidi == Init /\ [][NextMidi]_vars

----------------------------------------------------------------------------
(* Claims *)

InRange(v) == min_ <= v /\ v <= max_

\* C1: for the base Param, after setUI(v, n), for either n: get() and getUI()
\* both give v when min <= v <= max (bounds included), and default otherwise.
C1_ParamSetUI ==
    (kind = "Param" /\ last.op = "setUI") =>
        LET want == IF InRange(last.f) THEN last.f ELSE default_
        IN  val_ = want /\ getUI_val = want

C1_Witness ==
    /\ kind = "Param" /\ last.op = "setUI" /\ last.f > max_
    /\ val_ = default_ /\ getUI_val = default_

\* a setHost has been polled at least once since
HostPolled == consumed >= 1

\* C2: after a setHost the next isUIDirty() returns true, and every further
\* isUIDirty() returns false until another setHost.
C2_OneShot ==
    (last.op = "isUIDirty" /\ HostPolled) =>
        /\ polls = 1 => last.retB = TRUE
        /\ polls >= 2 => last.retB = FALSE

C2_Witness ==
    last.op = "isUIDirty" /\ HostPolled /\ polls = 2 /\ last.retB = FALSE

\* C3: for every variant, setHost invokes no listener; setUI(v, true) invokes
\* each registered listener exactly once, in range or not; setUI(v, false)
\* invokes none; a removed listener is not invoked.
C3_Notification ==
    /\ last.op = "setHost" => \A l \in Listeners : calls[l] = 0
    /\ (last.op = "setUI" /\ last.notifyHost) =>
          \A l \in Listeners : calls[l] = IF l \in registered THEN 1 ELSE 0
    /\ (last.op = "setUI" /\ ~last.notifyHost) => \A l \in Listeners : calls[l] = 0

C3_Witness ==
    /\ last.op = "setUI" /\ last.notifyHost /\ kind = "ParamDb"
    /\ ~InRange(fromDb(last.f))
    /\ registered = {1} /\ listener[2] = 0 /\ calls[1] = 1 /\ calls[2] = 0

\* C4: for ParamStepped, in every state reached by setUI, setHost, setStep and
\* set calls with arbitrary floats, the step lies in [0, nSteps-1].
C4_StepInRange == kind = "ParamStepped" => (step_ >= 0 /\ step_ <= nSteps - 1)

\* std::round of a float in hundredths: halves round away from zero
round(x) == IF x >= 0 THEN (x + 50) \div 100 ELSE -((50 - x) \div 100)

\* C5: for ParamStepped, after any sequence of set, setStep, setUI and
\* setHost, getStep() == round(get()).
C5_StepIsRoundedValue == kind = "ParamStepped" => step_ = round(val_)

\* C6 as stated: for every variant, setHost(v) with v outside [min, max]
\* leaves the raw value equal to default.
C6_HostResetsToDefault ==
    (last.op = "setHost" /\ ~InRange(last.f)) => val_ = default_

\* C6 amended: setHost(v) leaves what setUI(v, false) stores: for Param,
\* default when v is outside [min, max]; for ParamDb, default when fromDb(v)
\* is outside [min, max]; ParamStepped stores v itself, with no reset.
C6_HostStoresAsSetUI ==
    last.op = "setHost" =>
        /\ (kind = "Param" /\ ~InRange(last.f)) => val_ = default_
        /\ (kind = "ParamDb" /\ ~InRange(fromDb(last.f))) => val_ = default_
        /\ kind = "ParamStepped" => val_ = last.f

C6_Witness ==
    /\ last.op = "setHost" /\ kind = "ParamDb"
    /\ ~InRange(fromDb(last.f)) /\ val_ = default_

\* C7: with one thread in set/get and another in setUI/getUI on one base
\* Param, every value get() or getUI() returns is the construction default,
\* the argument of a set that has begun, or what a setUI that has begun
\* stores (its argument or default).
C7_NoForeignValue ==
    (kind = "Param" /\ last.op \in {"get", "getUI"}) =>
        last.retF \in ({default_} \cup begun)

C7_Witness ==
    /\ last.op = "get" /\ last.retF = default_ /\ val_ = default_
    /\ pc["B"] = "setUI_notify" /\ ~InRange(arg["B"].f)
    /\ \E f \in begun : f # default_ /\ InRange(f)

\* what getUI() shows of the value setUI(b, false) stores
UIValueOf(b) ==
    CASE kind = "Param" -> IF InRange(b) THEN b ELSE default_
      [] kind = "ParamDb" ->
            toDb(IF InRange(fromDb(b)) THEN fromDb(b) ELSE default_)
      [] kind = "ParamStepped" -> b

\* C8: two setHost calls with no isUIDirty() between them: the next
\* isUIDirty() returns true, the one after it false, and getUI() after the
\* true poll gives the value the later setHost stored.
C8_Coalesce ==
    /\ (last.op = "isUIDirty" /\ consumed >= 2 /\ polls = 1) => last.retB = TRUE
    /\ (last.op = "isUIDirty" /\ consumed >= 2 /\ polls = 2) => last.retB = FALSE
    /\ (last.op = "getUI" /\ consumed >= 2 /\ polls >= 1 /\ clean) =>
          last.retF = UIValueOf(hostArg)

C8_Witness ==
    /\ last.op = "getUI" /\ consumed >= 2 /\ polls = 1 /\ clean
    /\ kind = "Param" /\ last.retF = 140 /\ hostArg = 140

\* C9: for ParamDb, setUI(db, n) stores fromDb(db) when min <= fromDb(db) <= max
\* and default, unconverted, otherwise; getUI() returns toDb(get()).  The
\* range check is on the converted value, never on the decibel argument.
C9_ParamDbSetUI ==
    kind = "ParamDb" =>
        /\ last.op = "setUI" =>
              val_ = IF min_ <= fromDb(last.f) /\ fromDb(last.f) <= max_
                     THEN fromDb(last.f) ELSE default_
        /\ last.op = "getUI" => last.retF = toDb(val_)

C9_Witness ==
    /\ kind = "ParamDb" /\ last.op = "setUI"
    /\ last.f < min_ /\ val_ = fromDb(last.f) /\ val_ # default_

\* C10: for ParamStepped, setUI(v) with 0 <= v <= nSteps-1 sets the step to
\* floor(v + 0.5) (1.4 gives 1, 1.5 gives 2), and getUIString() then returns
\* the label at that index.
C10_RoundHalfUp ==
    kind = "ParamStepped" =>
        /\ (last.op = "setUI" /\ 0 <= last.f /\ last.f <= toFloat(nSteps - 1)) =>
              /\ step_ = (last.f + 50) \div 100
              /\ last.f = 140 => step_ = 1
              /\ last.f = 150 => step_ = 2
        /\ (last.op = "getUIString" /\ step_ >= 0 /\ step_ <= nSteps - 1) =>
              last.retS = LabelNames[step_ + 1]

C10_Witness ==
    /\ kind = "ParamStepped" /\ last.op = "getUIString"
    /\ val_ = 150 /\ step_ = 2 /\ last.retS = "C"

\* the placeholder of ParamStepped::getUIString(float v) for index u
Placeholder(u) == "val" \o ToString(u)

\* C11: ParamStepped label lookup never fabricates a label and never reads
\* outside the table: getUIString(v) returns labels[round(v)] when that index
\* is in [0, nSteps-1] and the placeholder, with a failed assertion,
\* otherwise; getUIString() indexes the table only with a step in
\* [0, nSteps-1], in every reachable state.
C11_LabelLookup ==
    kind = "ParamStepped" =>
        /\ last.op = "getUIString_v" =>
              LET u == round(last.f)
              IN  IF u >= 0 /\ u <= nSteps - 1
                  THEN last.retS = LabelNames[u + 1] /\ ~last.jassertFailed
                  ELSE last.retS = Placeholder(u) /\ last.jassertFailed
        /\ last.op = "getUIString" => (step_ >= 0 /\ step_ <= nSteps - 1)

\* C12: set(v) stores v for every v, in [min, max] or not: right after
\* set(v), get() == v, with no clamping and no reset to default.
C12_SetUnconditional ==
    last.op = "set" => (val_ = last.f /\ (kind # "ParamDb" => getUI_val = last.f))

C12_Witness ==
    /\ last.op = "set" /\ last.f > max_ /\ val_ = last.f /\ val_ # default_
    /\ kind = "Param"

\* C13: for ParamStepped, after setStep(e), getStep() == e and get() is the
\* float value of e; setStep invokes no listener and does not set uiDirty.
C13_SetStep ==
    /\ [](last.op = "setStep" =>
             /\ step_ = last.f
             /\ val_ = 100 * last.f
             /\ \A l \in Listeners : calls[l] = 0)
    /\ [][last'.op = "setStep" => uiDirty' = uiDirty]_vars

C13_Witness ==
    /\ last.op = "setStep" /\ last.f = 2 /\ step_ = 2 /\ val_ = 200
    /\ ~uiDirty /\ registered # {} /\ HostPolled

\* C14: toDb(x) == MIN_DB (-96) for every x <= 0 and fromDb(db) == 0 for every
\* db <= MIN_DB; so for a ParamDb with min <= 0, setUI(db) with db <= MIN_DB
\* stores raw 0 and getUI() then returns MIN_DB.
C14_DbFloor ==
    /\ MIN_DB = -9600
    /\ (last.op = "toDb" /\ last.f <= 0) => last.retF = -9600
    /\ (last.op = "fromDb" /\ last.f <= -9600) => last.retF = 0
    /\ (kind = "ParamDb" /\ min_ <= 0) =>
          /\ (last.op = "setUI" /\ last.f <= -9600) =>
                (val_ = 0 /\ getUI_val = -9600)
          /\ (last.op = "getUI" /\ val_ = 0) => last.retF = -9600

C14_Witness ==
    /\ kind = "ParamDb" /\ min_ <= 0 /\ last.op = "getUI"
    /\ val_ = 0 /\ last.retF = -9600 /\ hostArg = -9600 /\ clean

\* C15: midiToPanValue over the MIDI values 0..127 returns exactly 0 for 64,
\* exactly -1 for 0 and for 1, and 2*m/127 - 1 for every other m (127 gives
\* 1); the result is always in [-1, 1] and is non-decreasing in m.
\* (Results in 127ths: -1 is -127, 1 is 127.)
C15_MidiToPan ==
    last.op = "midiToPanValue" =>
        LET m == last.f
            r == last.retF
        IN  /\ m = 64 => r = 0
            /\ m \in {0, 1} => r = -127
            /\ m \notin {0, 1, 64} => r = 2 * m - 127
            /\ m = 127 => r = 127
            /\ -127 <= r /\ r <= 127
            /\ \A k \in 0..m : midiToPanValue(k) <= r

C15_Witness == last.op = "midiToPanValue" /\ last.f = 64 /\ last.retF = 0

\* C16: when two pollers call isUIDirty() after a single setHost, at once or
\* in turn, exactly one of them receives true and the other false: a host
\* write's dirty signal reaches at most one consumer.
C16_OneConsumer ==
    hist.flagVer > 0 =>
        /\ hist.polled = {} => hist.trues = 0
        /\ hist.polled # {} => hist.trues = 1
        /\ (last.op = "isUIDirty" /\ polls >= 2) => last.retB = FALSE

C16_Witness ==
    /\ hist.flagVer = 1 /\ hist.hostCalls = 1 /\ hist.polled = Pollers
    /\ polls = 2 /\ hist.trues = 1 /\ last.op = "isUIDirty" /\ ~last.retB

\* C17: setHost stores the value before it raises the flag, so under any
\* interleaving of a host thread in setHost and UI threads polling, once an
\* isUIDirty() has returned true a later getUI() shows the store of the
\* setHost that raised the flag or of a later one, never an earlier value; and
\* a setHost that has returned leaves the flag up until an isUIDirty() returns
\* true.
C17_ValueBeforeFlag ==
    /\ (last.op = "getUI" /\ hist.ackVer > 0) => hist.seenVer >= hist.ackVer
    /\ hist.unacked => uiDirty
    /\ hist.flagVer <= hist.valVer

C17_Witness ==
    /\ last.op = "getUI" /\ hist.ackVer = 1 /\ hist.seenVer = 2
    /\ hist.flagVer = 1 /\ ~uiDirty /\ pc["H"] = 2

\* C18: on a freshly constructed parameter, before any setHost, isUIDirty()
\* returns false: the dirty flag starts out false.
C18_InitiallyClean ==
    (last.op = "isUIDirty" /\ polls = 1 /\ ~HostPolled) => last.retB = FALSE

\* C19: uiDirty is set only by setHost and cleared only by isUIDirty; set,
\* setUI, setStep, get, getUI, getStep, getUIString, addListener and
\* removeListener leave it unchanged, and no operation changes min, max,
\* default or numSteps.
C19_Frame ==
    [][/\ last'.op \notin {"setHost", "isUIDirty"} => uiDirty' = uiDirty
       /\ (uiDirty' /\ ~uiDirty) => last'.op = "setHost"
       /\ (~uiDirty' /\ uiDirty) => last'.op = "isUIDirty"
       /\ <<min_, max_, default_, numSteps_>>' = <<min_, max_, default_, numSteps_>>
      ]_vars

C19_Witness ==
    /\ last.op = "setUI" /\ last.notifyHost /\ uiDirty /\ pending >= 1
    /\ val_ # default_

\* C20: for ParamStepped with one thread in setStep(a) and another in setUI(b),
\* a and b in range: once all calls have returned, getStep() == round(get()).
C20_WritersAgree ==
    (kind = "ParamStepped" /\ pc["S"] = 0 /\ pc["W"] = 0) => step_ = round(val_)

====
